---- MODULE Spec2Model ----
(***************************************************************************)
(* Task lifecycle coordinator of app/video.py: the in-memory TASKS map,    *)
(* the MinIO object store, the Redis job queue, and the three handlers     *)
(* that touch them: generate_video (Submit), video_callback                *)
(* (HandleCallback) and get_status (QueryStatus).                          *)
(*                                                                         *)
(* Scheduling.  generate_video and video_callback are coroutines of one    *)
(* event loop: between two awaits a coroutine runs alone on the loop.      *)
(* get_status is a plain def, which the framework runs on a worker thread, *)
(* so its statements interleave freely with everything else.  The external *)
(* post-processing worker is another process.                              *)
(*                                                                         *)
(* Beside the coordinator: the two handlers of app/video.py that work on   *)
(* scratch files, get_thumbnail and upload_youtube (SpecMedia), the        *)
(* provider's failing answers to generate_video (SpecSubmit), and the      *)
(* table ai_final_videos behind app/ai.py (SpecDb).                        *)
(***************************************************************************)
EXTENDS Integers, Sequences, FiniteSets, TLC

\* ------------------------------------------------------------------ bounds
\* Number of video_callback invocations, and number of get_status
\* invocations that run at the same time (a finished one may be followed by
\* another).
MaxCallbacks == 2
MaxQueries == 1

Users == {"u1", "u2"}
\* Task ids; an id is a string, kept as a sequence of tokens so that key
\* building and key parsing are computed, not assumed.  ProviderIds are the
\* ids the generation provider hands out; the other ids of TaskIds reach the
\* handlers in payloads and paths without ever having been submitted.
ProviderIds == {<<"a">>}
TaskIds == ProviderIds \cup {<<"b">>}

Cb == 1..MaxCallbacks
Qs == 1..MaxQueries

\* ------------------------------------------------------------------- state
VARIABLES
    TASKS,      \* video.py:48   task_id -> [status, user_id], NoTask when absent
    store,      \* MinIO bucket: the set of object keys present
    queue,      \* Redis list REDIS2_QUEUE: every job pushed, oldest first
    tmp,        \* scratch files on disk, named by the invocation that made them
    submitResp, \* response of the last generate_video call
    submitCall, \* that call: its caller, the provider's answer and the id in it
    mPc,        \* position of the get_thumbnail and of the upload_youtube invocation
    mArgs,      \* their user_id, task_id and video type
    mResp,      \* their responses
    scratch,    \* their scratch files on disk
    leaked,     \* scratch files that finished invocations of them left on disk
    videos,     \* rows of the table ai_final_videos
    dbResp,     \* the last call into ai.py: its arguments, whether the database
                \* failed it, and its outcome
    cbPc,       \* position of each video_callback invocation
    cbTask,     \* its payload taskId
    cbUrls,     \* its payload resultUrls
    cbUser,     \* its local user_id (video.py:101)
    cbResp,     \* its HTTP response
    cbPath,     \* how far it has come: running, ok (published), or the failed step
    cbRaced,    \* a status query stored DONE for its task while it was running
    qPc,        \* position of each get_status invocation
    qTask,      \* its task_id
    qArtifact,  \* whether the processed artifact was in storage when it began
    qList,      \* outcome of its storage listing
    qReplaced,  \* the stored status that its DONE replaced, until it returns
    qOver,      \* a callback wrote the status after it stored DONE
    qResult,    \* the status it reported
    reported    \* per task, the first FAILED or DONE a query reported for it

vars == <<TASKS, store, queue, tmp, submitResp, submitCall,
          mPc, mArgs, mResp, scratch, leaked, videos, dbResp,
          cbPc, cbTask, cbUrls, cbUser, cbResp, cbPath, cbRaced,
          qPc, qTask, qArtifact, qList, qReplaced, qOver, qResult, reported>>

cbVars == <<cbPc, cbTask, cbUrls, cbUser, cbResp, cbPath, cbRaced>>
mediaVars == <<mPc, mArgs, mResp, scratch, leaked>>
dbVars == <<videos, dbResp>>
sideVars == <<mediaVars, dbVars>>
qVars == <<qPc, qTask, qArtifact, qList, qReplaced, qOver, qResult, reported>>

NoTask == [status |-> "NONE", user_id |-> "NONE"]
Known(t) == TASKS[t] # NoTask

\* ------------------------------------------------------- object-store keys
\* minio_client.py:27  filename = f"{task_id}_processed.mp4" / f"{task_id}.mp4"
FileName(task_id, processed) ==
    task_id \o (IF processed THEN <<"_processed">> ELSE <<>>) \o <<".mp4">>

\* minio_client.py:31  f"{user_id}/{filename}"
ObjectKey(user_id, task_id, processed) ==
    <<user_id, "/">> \o FileName(task_id, processed)

\* obj.object_name.split("/")[-1]
BaseName(key) ==
    LET slashes == {i \in 1..Len(key) : key[i] = "/"}
        last == IF slashes = {} THEN 0
                ELSE CHOOSE i \in slashes : \A j \in slashes : j <= i
    IN  SubSeq(key, last + 1, Len(key))

HasPrefix(key, p) == Len(key) >= Len(p) /\ SubSeq(key, 1, Len(p)) = p

\* Variant of list_user_videos that keeps the ".mp4" suffix in the names.
list_user_videos_KeepsSuffix(user_id) ==
    LET objects == {k \in store : HasPrefix(k, <<user_id, "/">>)}
        names == {BaseName(k) : k \in objects}
    IN  {m \in names : Len(m) > 0 /\ m[Len(m)] = ".mp4"}

\* minio_client.py:72-93.  The names of the user's .mp4 objects with ".mp4"
\* removed.  The code returns them sorted descending; get_status only tests
\* membership, so the result is kept as a set.
list_user_videos(user_id) ==
    LET objects == {k \in store : HasPrefix(k, <<user_id, "/">>)}
        names == {BaseName(k) : k \in objects}
    IN  {SelectSeq(n, LAMBDA x : x # ".mp4") :
            n \in {m \in names : Len(m) > 0 /\ m[Len(m)] = ".mp4"}}

\* video.py:172  f"{task_id}_processed"
ProcessedName(task_id) == task_id \o <<"_processed">>

\* ----------------------------------------------------------------- the job
\* Variant of Job with the two keys exchanged.
Job_SwappedKeys(task_id, user_id) ==
    [task_id |-> task_id,
     user_id |-> user_id,
     input_key |-> <<user_id, "/">> \o task_id \o <<"_processed", ".mp4">>,
     output_key |-> <<user_id, "/">> \o task_id \o <<".mp4">>]

\* video.py:113-118
Job(task_id, user_id) ==
    [task_id |-> task_id,
     user_id |-> user_id,
     input_key |-> <<user_id, "/">> \o task_id \o <<".mp4">>,
     output_key |-> <<user_id, "/">> \o task_id \o <<"_processed", ".mp4">>]

\* ------------------------------------------------------------- event loop
\* The two media handlers that work on scratch files, one invocation of each
\* at a time, and the arguments of an invocation that is not running.
MediaOps == {"thumb", "youtube"}
NoArgs == [user_id |-> "NONE", task_id |-> <<>>, type |-> "none"]

\* No call into ai.py yet.
NoDbCall == [op |-> "none", video_key |-> <<>>, user_id |-> "NONE",
             title |-> "NULL", description |-> "NULL",
             youtube_video_id |-> "NULL", fault |-> FALSE, result |-> "none"]

\* Positions of video_callback at which it runs on the event loop without an
\* await ahead of its next statement: until it awaits or returns, no other
\* coroutine runs.
SyncPCs == {"check", "upload", "publish", "setstatus", "except", "finally"}
LoopFree(c) == \A d \in Cb : d # c => cbPc[d] \notin SyncPCs
LoopIdle == \A d \in Cb : cbPc[d] \notin SyncPCs

Init ==
    /\ TASKS = [t \in TaskIds |-> NoTask]
    /\ store = {}
    /\ queue = <<>>
    /\ tmp = {}
    /\ submitResp = "none"
    /\ submitCall = [user_id |-> "NONE", answer |-> "none", task_id |-> <<>>]
    /\ mPc = [op \in MediaOps |-> "idle"]
    /\ mArgs = [op \in MediaOps |-> NoArgs]
    /\ mResp = [op \in MediaOps |-> "none"]
    /\ scratch = {}
    /\ leaked = {}
    /\ videos = {}
    /\ dbResp = NoDbCall
    /\ cbPc = [c \in Cb |-> "idle"]
    /\ cbTask = [c \in Cb |-> <<>>]
    /\ cbUrls = [c \in Cb |-> <<>>]
    /\ cbUser = [c \in Cb |-> "NONE"]
    /\ cbResp = [c \in Cb |-> 0]
    /\ cbPath = [c \in Cb |-> "idle"]
    /\ cbRaced = [c \in Cb |-> FALSE]
    /\ qPc = [q \in Qs |-> "idle"]
    /\ qTask = [q \in Qs |-> <<>>]
    /\ qArtifact = [q \in Qs |-> FALSE]
    /\ qList = [q \in Qs |-> "none"]
    /\ qReplaced = [q \in Qs |-> "NONE"]
    /\ qOver = [q \in Qs |-> FALSE]
    /\ qResult = [q \in Qs |-> "NONE"]
    /\ reported = [t \in TaskIds |-> "NONE"]

\* A write of the status field of task t by a callback: history bookkeeping
\* for the queries that have stored DONE and not yet read the status back.
NoteCallbackWrite(t) ==
    qOver' = [q \in Qs |-> qOver[q] \/ (qPc[q] = "ret" /\ qTask[q] = t
                                          /\ qList[q] = "present")]

\* ---------------------------------------------------------- generate_video
\* video.py:57-86, the path on which the provider answers with a task id.
\* The provider's ids are unique: it answers with an id it has not used before.
SubmitOk(user_id, task_id) ==
    /\ LoopIdle
    /\ ~Known(task_id)
    /\ TASKS' = [TASKS EXCEPT ![task_id] = [status |-> "QUEUED", user_id |-> user_id]]
    /\ submitResp' = "QUEUED"
    /\ submitCall' = [user_id |-> user_id, answer |-> "ok", task_id |-> task_id]
    /\ UNCHANGED <<store, queue, tmp, cbVars, qVars>>
    /\ UNCHANGED sideVars

\* Variant of SubmitFail without raise_for_status: an error answer of the
\* provider that carries an id is registered like a success.
SubmitFail_NoStatusCheck(user_id, why) ==
    /\ LoopIdle
    /\ IF why = "http_error"
       THEN \E t \in TaskIds :
               /\ ~Known(t)
               /\ TASKS' = [TASKS EXCEPT ![t] =
                               [status |-> "QUEUED", user_id |-> user_id]]
               /\ submitResp' = "QUEUED"
               /\ submitCall' = [user_id |-> user_id, answer |-> why, task_id |-> t]
       ELSE /\ submitResp' = "502"
            /\ submitCall' = [user_id |-> user_id, answer |-> why, task_id |-> <<>>]
            /\ UNCHANGED TASKS
    /\ UNCHANGED <<store, queue, tmp, cbVars, qVars, sideVars>>

\* video.py:66-79, the paths on which nothing is registered.  "http_error":
\* the call raises or raise_for_status (line 74) raises, and the exception
\* leaves the handler unhandled, a 500 response.  "no_task_id": the answer
\* carries no data.taskId and lines 78-79 raise HTTPException 502.
SubmitFail(user_id, why) ==
    /\ LoopIdle
    /\ submitResp' = IF why = "http_error" THEN "500" ELSE "502"
    /\ submitCall' = [user_id |-> user_id, answer |-> why, task_id |-> <<>>]
    /\ UNCHANGED <<TASKS, store, queue, tmp, cbVars, qVars, sideVars>>

\* ---------------------------------------------------------- video_callback
InFlight(c) == cbPc[c] \in {"download", "upload", "publish", "setstatus", "except", "finally"}

\* video.py:92-95.  The request arrives and its payload is read: any task id,
\* with or without result URLs.
CbReceive(c, task_id, urls) ==
    /\ cbPc[c] = "idle"
    /\ \A d \in Cb : d < c => cbPc[d] # "idle"
    /\ LoopFree(c)
    /\ cbPc' = [cbPc EXCEPT ![c] = "check"]
    /\ cbTask' = [cbTask EXCEPT ![c] = task_id]
    /\ cbUrls' = [cbUrls EXCEPT ![c] = urls]
    /\ UNCHANGED <<TASKS, store, queue, tmp, submitResp,
                   cbUser, cbResp, cbPath, cbRaced, qVars>>
    /\ UNCHANGED <<submitCall, sideVars>>

\* Variant of CbCheck that tests only "not task", not the result URLs.
CbCheck_NoUrlsTest(c) ==
    /\ cbPc[c] = "check"
    /\ IF ~Known(cbTask[c])
       THEN /\ cbPc' = [cbPc EXCEPT ![c] = "returned"]
            /\ cbResp' = [cbResp EXCEPT ![c] = 200]
            /\ cbTask' = [cbTask EXCEPT ![c] = <<>>]
            /\ cbUrls' = [cbUrls EXCEPT ![c] = <<>>]
            /\ UNCHANGED <<cbUser, cbPath, tmp>>
       ELSE /\ cbUser' = [cbUser EXCEPT ![c] = TASKS[cbTask[c]].user_id]
            /\ tmp' = tmp \cup {c}
            /\ cbPc' = [cbPc EXCEPT ![c] = "download"]
            /\ cbPath' = [cbPath EXCEPT ![c] = "running"]
            /\ UNCHANGED <<cbTask, cbUrls, cbResp>>
    /\ UNCHANGED <<TASKS, store, queue, submitResp, cbRaced, qVars>>
    /\ UNCHANGED <<submitCall, sideVars>>

\* video.py:97-102.  The task is looked up, and either the call is answered
\* at once or the scratch file is created.
CbCheck(c) ==
    /\ cbPc[c] = "check"
    /\ IF ~Known(cbTask[c]) \/ cbUrls[c] = <<>>
       THEN /\ cbPc' = [cbPc EXCEPT ![c] = "returned"]
            /\ cbResp' = [cbResp EXCEPT ![c] = 200]
            /\ cbTask' = [cbTask EXCEPT ![c] = <<>>]
            /\ cbUrls' = [cbUrls EXCEPT ![c] = <<>>]
            /\ UNCHANGED <<cbUser, cbPath, tmp>>
       ELSE /\ cbUser' = [cbUser EXCEPT ![c] = TASKS[cbTask[c]].user_id]
            /\ tmp' = tmp \cup {c}
            /\ cbPc' = [cbPc EXCEPT ![c] = "download"]
            /\ cbPath' = [cbPath EXCEPT ![c] = "running"]
            /\ UNCHANGED <<cbTask, cbUrls, cbResp>>
    /\ UNCHANGED <<TASKS, store, queue, submitResp, cbRaced, qVars>>
    /\ UNCHANGED <<submitCall, sideVars>>

\* video.py:105-109.  GET urls[0], raise_for_status, write the scratch file;
\* urls[0] of an empty list raises.  The coroutine resumes on the loop when
\* the download has ended.
CbDownload(c, ok) ==
    /\ cbPc[c] = "download"
    /\ LoopFree(c)
    /\ ok => cbUrls[c] # <<>>
    /\ IF ok
       THEN /\ cbPc' = [cbPc EXCEPT ![c] = "upload"]
            /\ UNCHANGED cbPath
       ELSE /\ cbPc' = [cbPc EXCEPT ![c] = "except"]
            /\ cbPath' = [cbPath EXCEPT ![c] = "download"]
    /\ UNCHANGED <<TASKS, store, queue, tmp, submitResp,
                   cbTask, cbUrls, cbUser, cbResp, cbRaced, qVars>>
    /\ UNCHANGED <<submitCall, sideVars>>

\* Variant of CbUpload in which a failed upload is not an error of the
\* handler: it goes on to publish.
CbUpload_IgnoresFailure(c, ok) ==
    /\ cbPc[c] = "upload"
    /\ store' = IF ok THEN store \cup {ObjectKey(cbUser[c], cbTask[c], FALSE)}
                      ELSE store
    /\ cbPc' = [cbPc EXCEPT ![c] = "publish"]
    /\ UNCHANGED <<TASKS, queue, tmp, submitResp,
                   cbTask, cbUrls, cbUser, cbResp, cbPath, cbRaced, qVars>>
    /\ UNCHANGED <<submitCall, sideVars>>

\* video.py:111  upload_video(user_id, task_id, tmp_video)
CbUpload(c, ok) ==
    /\ cbPc[c] = "upload"
    /\ IF ok
       THEN /\ store' = store \cup {ObjectKey(cbUser[c], cbTask[c], FALSE)}
            /\ cbPc' = [cbPc EXCEPT ![c] = "publish"]
            /\ UNCHANGED cbPath
       ELSE /\ cbPc' = [cbPc EXCEPT ![c] = "except"]
            /\ cbPath' = [cbPath EXCEPT ![c] = "upload"]
            /\ UNCHANGED store
    /\ UNCHANGED <<TASKS, queue, tmp, submitResp,
                   cbTask, cbUrls, cbUser, cbResp, cbRaced, qVars>>
    /\ UNCHANGED <<submitCall, sideVars>>

\* video.py:113-120  redis2.lpush(REDIS2_QUEUE, json.dumps(job))
CbPublish(c, ok) ==
    /\ cbPc[c] = "publish"
    /\ IF ok
       THEN /\ queue' = Append(queue, Job(cbTask[c], cbUser[c]))
            /\ cbPc' = [cbPc EXCEPT ![c] = "setstatus"]
            /\ cbPath' = [cbPath EXCEPT ![c] = "ok"]
       ELSE /\ cbPc' = [cbPc EXCEPT ![c] = "except"]
            /\ cbPath' = [cbPath EXCEPT ![c] = "publish"]
            /\ UNCHANGED queue
    /\ UNCHANGED <<TASKS, store, tmp, submitResp,
                   cbTask, cbUrls, cbUser, cbResp, cbRaced, qVars>>
    /\ UNCHANGED <<submitCall, sideVars>>

\* video.py:121  task["status"] = "QUEUED_FOR_AI"
CbSetStatus(c) ==
    /\ cbPc[c] = "setstatus"
    /\ TASKS' = [TASKS EXCEPT ![cbTask[c]].status = "QUEUED_FOR_AI"]
    /\ cbPc' = [cbPc EXCEPT ![c] = "finally"]
    /\ NoteCallbackWrite(cbTask[c])
    /\ UNCHANGED <<store, queue, tmp, submitResp,
                   cbTask, cbUrls, cbUser, cbResp, cbPath, cbRaced,
                   qPc, qTask, qArtifact, qList, qReplaced, qResult, reported>>
    /\ UNCHANGED <<submitCall, sideVars>>

\* video.py:123-125  except Exception: task["status"] = "FAILED"
CbExcept(c) ==
    /\ cbPc[c] = "except"
    /\ TASKS' = [TASKS EXCEPT ![cbTask[c]].status = "FAILED"]
    /\ cbPc' = [cbPc EXCEPT ![c] = "finally"]
    /\ NoteCallbackWrite(cbTask[c])
    /\ UNCHANGED <<store, queue, tmp, submitResp,
                   cbTask, cbUrls, cbUser, cbResp, cbPath, cbRaced,
                   qPc, qTask, qArtifact, qList, qReplaced, qResult, reported>>
    /\ UNCHANGED <<submitCall, sideVars>>

\* Variant of CbFinally with os.remove as the last statement of the try body
\* instead of a finally clause: a failed step leaves the scratch file.
CbFinally_KeepsOnFailure(c) ==
    /\ cbPc[c] = "finally"
    /\ tmp' = IF cbPath[c] = "ok" THEN tmp \ {c} ELSE tmp
    /\ cbPc' = [cbPc EXCEPT ![c] = "returned"]
    /\ cbResp' = [cbResp EXCEPT ![c] = 200]
    /\ cbTask' = [cbTask EXCEPT ![c] = <<>>]
    /\ cbUrls' = [cbUrls EXCEPT ![c] = <<>>]
    /\ cbUser' = [cbUser EXCEPT ![c] = "NONE"]
    /\ cbPath' = [cbPath EXCEPT ![c] = "idle"]
    /\ cbRaced' = [cbRaced EXCEPT ![c] = FALSE]
    /\ UNCHANGED <<TASKS, store, queue, submitResp, qVars>>
    /\ UNCHANGED <<submitCall, sideVars>>

\* Variant of CbFinally in which the handler's exception is not swallowed:
\* after a failed step the request ends with a server error.
CbFinally_Propagates(c) ==
    /\ cbPc[c] = "finally"
    /\ tmp' = tmp \ {c}
    /\ cbPc' = [cbPc EXCEPT ![c] = "returned"]
    /\ cbResp' = [cbResp EXCEPT ![c] = IF cbPath[c] = "ok" THEN 200 ELSE 500]
    /\ cbTask' = [cbTask EXCEPT ![c] = <<>>]
    /\ cbUrls' = [cbUrls EXCEPT ![c] = <<>>]
    /\ cbUser' = [cbUser EXCEPT ![c] = "NONE"]
    /\ cbPath' = [cbPath EXCEPT ![c] = "idle"]
    /\ cbRaced' = [cbRaced EXCEPT ![c] = FALSE]
    /\ UNCHANGED <<TASKS, store, queue, submitResp, qVars>>
    /\ UNCHANGED <<submitCall, sideVars>>

\* video.py:127-130  finally: os.remove(tmp_video); return {"code": 200}
CbFinally(c) ==
    /\ cbPc[c] = "finally"
    /\ tmp' = tmp \ {c}
    /\ cbPc' = [cbPc EXCEPT ![c] = "returned"]
    /\ cbResp' = [cbResp EXCEPT ![c] = 200]
    /\ cbTask' = [cbTask EXCEPT ![c] = <<>>]
    /\ cbUrls' = [cbUrls EXCEPT ![c] = <<>>]
    /\ cbUser' = [cbUser EXCEPT ![c] = "NONE"]
    /\ cbPath' = [cbPath EXCEPT ![c] = "idle"]
    /\ cbRaced' = [cbRaced EXCEPT ![c] = FALSE]
    /\ UNCHANGED <<TASKS, store, queue, submitResp, qVars>>
    /\ UNCHANGED <<submitCall, sideVars>>

\* --------------------------------------------------------------- get_status
\* History: the first FAILED or DONE that a query reported for a known task.
NoteReport(t, r) ==
    IF reported[t] = "NONE" /\ r \in {"FAILED", "DONE"}
    THEN [reported EXCEPT ![t] = r]
    ELSE reported

\* Variant of QStart that looks the task up with an inserting lookup
\* (setdefault): an unknown id gets an entry.
QStart_UnknownRegisters(q, task_id) ==
    /\ qPc[q] = "idle"
    /\ \A r \in Qs : r < q => qPc[r] # "idle"
    /\ qTask' = [qTask EXCEPT ![q] = task_id]
    /\ IF ~Known(task_id)
       THEN /\ qResult' = [qResult EXCEPT ![q] = "DONE"]
            /\ qPc' = [qPc EXCEPT ![q] = "returned"]
            /\ TASKS' = [TASKS EXCEPT ![task_id] =
                            [status |-> "DONE", user_id |-> "NONE"]]
            /\ UNCHANGED <<qArtifact, reported>>
       ELSE /\ qArtifact' = [qArtifact EXCEPT ![q] =
                    ObjectKey(TASKS[task_id].user_id, task_id, TRUE) \in store]
            /\ UNCHANGED TASKS
            /\ IF TASKS[task_id].status = "FAILED"
               THEN /\ qResult' = [qResult EXCEPT ![q] = "FAILED"]
                    /\ qPc' = [qPc EXCEPT ![q] = "returned"]
                    /\ reported' = NoteReport(task_id, "FAILED")
               ELSE /\ qPc' = [qPc EXCEPT ![q] = "list"]
                    /\ UNCHANGED <<qResult, reported>>
    /\ UNCHANGED <<store, queue, tmp, submitResp, cbVars, qList, qReplaced, qOver>>
    /\ UNCHANGED <<submitCall, sideVars>>

\* Variant of QStart without the FAILED answer of video.py:165-166.
QStart_NoFailedTest(q, task_id) ==
    /\ qPc[q] = "idle"
    /\ \A r \in Qs : r < q => qPc[r] # "idle"
    /\ qTask' = [qTask EXCEPT ![q] = task_id]
    /\ IF ~Known(task_id)
       THEN /\ qResult' = [qResult EXCEPT ![q] = "DONE"]
            /\ qPc' = [qPc EXCEPT ![q] = "returned"]
            /\ UNCHANGED <<qArtifact, reported>>
       ELSE /\ qArtifact' = [qArtifact EXCEPT ![q] =
                    ObjectKey(TASKS[task_id].user_id, task_id, TRUE) \in store]
            /\ qPc' = [qPc EXCEPT ![q] = "list"]
            /\ UNCHANGED <<qResult, reported>>
    /\ UNCHANGED <<TASKS, store, queue, tmp, submitResp, cbVars, qList, qReplaced, qOver>>
    /\ UNCHANGED <<submitCall, sideVars>>

\* video.py:160-166.  Lookup, the unknown-task answer and the FAILED answer.
QStart(q, task_id) ==
    /\ qPc[q] = "idle"
    /\ \A r \in Qs : r < q => qPc[r] # "idle"
    /\ qTask' = [qTask EXCEPT ![q] = task_id]
    /\ IF ~Known(task_id)
       THEN /\ qResult' = [qResult EXCEPT ![q] = "DONE"]
            /\ qPc' = [qPc EXCEPT ![q] = "returned"]
            /\ UNCHANGED <<qArtifact, reported>>
       ELSE /\ qArtifact' = [qArtifact EXCEPT ![q] =
                    ObjectKey(TASKS[task_id].user_id, task_id, TRUE) \in store]
            /\ IF TASKS[task_id].status = "FAILED"
               THEN /\ qResult' = [qResult EXCEPT ![q] = "FAILED"]
                    /\ qPc' = [qPc EXCEPT ![q] = "returned"]
                    /\ reported' = NoteReport(task_id, "FAILED")
               ELSE /\ qPc' = [qPc EXCEPT ![q] = "list"]
                    /\ UNCHANGED <<qResult, reported>>
    /\ UNCHANGED <<TASKS, store, queue, tmp, submitResp, cbVars, qList, qReplaced, qOver>>
    /\ UNCHANGED <<submitCall, sideVars>>

\* Variant of QList without the except clause of video.py:174-175: a listing
\* error ends the request with a server error.
QList_Propagates(q, ok) ==
    /\ qPc[q] = "list"
    /\ IF ~ok
       THEN /\ qList' = [qList EXCEPT ![q] = "err"]
            /\ qPc' = [qPc EXCEPT ![q] = "returned"]
            /\ qResult' = [qResult EXCEPT ![q] = "ERROR"]
       ELSE IF ProcessedName(qTask[q]) \in list_user_videos(TASKS[qTask[q]].user_id)
       THEN /\ qList' = [qList EXCEPT ![q] = "present"]
            /\ qPc' = [qPc EXCEPT ![q] = "write"]
            /\ UNCHANGED qResult
       ELSE /\ qList' = [qList EXCEPT ![q] = "absent"]
            /\ qPc' = [qPc EXCEPT ![q] = "ret"]
            /\ UNCHANGED qResult
    /\ UNCHANGED <<TASKS, store, queue, tmp, submitResp, cbVars,
                   qTask, qArtifact, qReplaced, qOver, reported>>
    /\ UNCHANGED <<submitCall, sideVars>>

\* Variant of QList whose membership test looks for the task id itself, the
\* name of the original, instead of the processed name.
QList_TestsOriginal(q, ok) ==
    /\ qPc[q] = "list"
    /\ IF ~ok
       THEN /\ qList' = [qList EXCEPT ![q] = "err"]
            /\ qPc' = [qPc EXCEPT ![q] = "ret"]
       ELSE IF qTask[q] \in list_user_videos(TASKS[qTask[q]].user_id)
       THEN /\ qList' = [qList EXCEPT ![q] = "present"]
            /\ qPc' = [qPc EXCEPT ![q] = "write"]
       ELSE /\ qList' = [qList EXCEPT ![q] = "absent"]
            /\ qPc' = [qPc EXCEPT ![q] = "ret"]
    /\ UNCHANGED <<TASKS, store, queue, tmp, submitResp, cbVars,
                   qTask, qArtifact, qReplaced, qOver, qResult, reported>>
    /\ UNCHANGED <<submitCall, sideVars>>

\* video.py:168-172 and 174-175.  The listing either raises, which the
\* handler swallows, or returns the names the membership test is run on.
QList(q, ok) ==
    /\ qPc[q] = "list"
    /\ IF ~ok
       THEN /\ qList' = [qList EXCEPT ![q] = "err"]
            /\ qPc' = [qPc EXCEPT ![q] = "ret"]
       ELSE IF ProcessedName(qTask[q]) \in list_user_videos(TASKS[qTask[q]].user_id)
       THEN /\ qList' = [qList EXCEPT ![q] = "present"]
            /\ qPc' = [qPc EXCEPT ![q] = "write"]
       ELSE /\ qList' = [qList EXCEPT ![q] = "absent"]
            /\ qPc' = [qPc EXCEPT ![q] = "ret"]
    /\ UNCHANGED <<TASKS, store, queue, tmp, submitResp, cbVars,
                   qTask, qArtifact, qReplaced, qOver, qResult, reported>>
    /\ UNCHANGED <<submitCall, sideVars>>

\* video.py:173  task["status"] = "DONE"
QWrite(q) ==
    /\ qPc[q] = "write"
    /\ TASKS' = [TASKS EXCEPT ![qTask[q]].status = "DONE"]
    /\ qPc' = [qPc EXCEPT ![q] = "ret"]
    /\ qReplaced' = [qReplaced EXCEPT ![q] = TASKS[qTask[q]].status]
    /\ cbRaced' = [c \in Cb |-> cbRaced[c] \/ (InFlight(c) /\ cbTask[c] = qTask[q])]
    /\ UNCHANGED <<store, queue, tmp, submitResp,
                   cbPc, cbTask, cbUrls, cbUser, cbResp, cbPath,
                   qTask, qArtifact, qList, qOver, qResult, reported>>
    /\ UNCHANGED <<submitCall, sideVars>>

\* video.py:177  return {"task_id": task_id, "status": task["status"]}
QRet(q) ==
    /\ qPc[q] = "ret"
    /\ qResult' = [qResult EXCEPT ![q] = TASKS[qTask[q]].status]
    /\ reported' = NoteReport(qTask[q], TASKS[qTask[q]].status)
    /\ qPc' = [qPc EXCEPT ![q] = "returned"]
    /\ qReplaced' = [qReplaced EXCEPT ![q] = "NONE"]
    /\ UNCHANGED <<TASKS, store, queue, tmp, submitResp, cbVars,
                   qTask, qArtifact, qList, qOver>>
    /\ UNCHANGED <<submitCall, sideVars>>

\* The response has been sent and the invocation's locals are gone; the
\* thread takes the next request.
QRelease(q) ==
    /\ qPc[q] = "returned"
    /\ qPc' = [qPc EXCEPT ![q] = "idle"]
    /\ qTask' = [qTask EXCEPT ![q] = <<>>]
    /\ qArtifact' = [qArtifact EXCEPT ![q] = FALSE]
    /\ qList' = [qList EXCEPT ![q] = "none"]
    /\ qOver' = [qOver EXCEPT ![q] = FALSE]
    /\ qResult' = [qResult EXCEPT ![q] = "NONE"]
    /\ UNCHANGED <<TASKS, store, queue, tmp, submitResp, cbVars, qReplaced, reported>>
    /\ UNCHANGED <<submitCall, sideVars>>

\* ------------------------------------------------------- the external worker
\* Not code of this repository: it takes a published job (delivery is at
\* least once) and writes the processed artifact at the job's output_key.
Worker(j) ==
    /\ j \in 1..Len(queue)
    /\ queue[j].output_key \notin store
    /\ store' = store \cup {queue[j].output_key}
    /\ UNCHANGED <<TASKS, queue, tmp, submitResp, cbVars, qVars>>
    /\ UNCHANGED <<submitCall, sideVars>>

UrlLists == {<<>>, <<"url">>}

Next ==
    \/ \E u \in Users, t \in ProviderIds : SubmitOk(u, t)
    \/ \E c \in Cb, t \in TaskIds, urls \in UrlLists : CbReceive(c, t, urls)
    \/ \E c \in Cb : CbCheck(c)
    \/ \E c \in Cb, ok \in BOOLEAN : CbDownload(c, ok)
    \/ \E c \in Cb, ok \in BOOLEAN : CbUpload(c, ok)
    \/ \E c \in Cb, ok \in BOOLEAN : CbPublish(c, ok)
    \/ \E c \in Cb : CbSetStatus(c)
    \/ \E c \in Cb : CbExcept(c)
    \/ \E c \in Cb : CbFinally(c)
    \/ \E q \in Qs, t \in TaskIds : QStart(q, t)
    \/ \E q \in Qs, ok \in BOOLEAN : QList(q, ok)
    \/ \E q \in Qs : QWrite(q)
    \/ \E q \in Qs : QRet(q)
    \/ \E q \in Qs : QRelease(q)
    \/ \E j \in 1..MaxCallbacks : Worker(j)

Spec == Init /\ [][Next]_vars

\* ------------------------------------------------------------ get_thumbnail
\* minio_client.py:42 and 64  f"{user_id}/{task_id}.jpg"
ThumbKey(user_id, task_id) == <<user_id, "/">> \o task_id \o <<".jpg">>

\* The scratch files of a media handler, and what is left of them on disk:
\* an invocation that has returned leaves its remaining files behind.
FilesOf(op) == {f \in scratch : f[1] = op}
OtherMedia == <<TASKS, store, queue, tmp, submitResp, submitCall, cbVars, qVars, dbVars>>

\* video.py:204-205
ThStart(user_id, task_id) ==
    /\ mPc["thumb"] = "idle"
    /\ mArgs' = [mArgs EXCEPT !["thumb"] =
                    [user_id |-> user_id, task_id |-> task_id, type |-> "none"]]
    /\ mPc' = [mPc EXCEPT !["thumb"] = "lookup"]
    /\ UNCHANGED <<mResp, scratch, leaked, OtherMedia>>

\* video.py:208-212.  get_thumbnail_stream returns the stored thumbnail, or
\* raises; on any exception the handler creates its two scratch files.
ThLookup(ok) ==
    /\ mPc["thumb"] = "lookup"
    /\ ok => ThumbKey(mArgs["thumb"].user_id, mArgs["thumb"].task_id) \in store
    /\ IF ok
       THEN /\ mPc' = [mPc EXCEPT !["thumb"] = "returned"]
            /\ mResp' = [mResp EXCEPT !["thumb"] = "stream"]
            /\ UNCHANGED scratch
       ELSE /\ mPc' = [mPc EXCEPT !["thumb"] = "fetch"]
            /\ scratch' = scratch \cup {<<"thumb", "tmp_video">>, <<"thumb", "tmp_thumb">>}
            /\ UNCHANGED mResp
    /\ UNCHANGED <<mArgs, leaked, OtherMedia>>

\* An exception that leaves get_thumbnail: nothing in the handler catches it,
\* the request ends with a server error.
ThRaise ==
    /\ mPc' = [mPc EXCEPT !["thumb"] = "returned"]
    /\ mResp' = [mResp EXCEPT !["thumb"] = "500"]
    /\ UNCHANGED scratch

\* video.py:214-217  get_video_stream of the original, written to tmp_video
ThFetch(ok) ==
    /\ mPc["thumb"] = "fetch"
    /\ ok => ObjectKey(mArgs["thumb"].user_id, mArgs["thumb"].task_id, FALSE) \in store
    /\ IF ok
       THEN /\ mPc' = [mPc EXCEPT !["thumb"] = "encode"]
            /\ UNCHANGED <<mResp, scratch>>
       ELSE ThRaise
    /\ UNCHANGED <<mArgs, leaked, OtherMedia>>

\* video.py:219-222  subprocess.run(ffmpeg ..., check=True)
ThEncode(ok) ==
    /\ mPc["thumb"] = "encode"
    /\ IF ok
       THEN /\ mPc' = [mPc EXCEPT !["thumb"] = "upload"]
            /\ UNCHANGED <<mResp, scratch>>
       ELSE ThRaise
    /\ UNCHANGED <<mArgs, leaked, OtherMedia>>

\* video.py:224  upload_thumbnail(user_id, task_id, tmp_thumb)
ThUpload(ok) ==
    /\ mPc["thumb"] = "upload"
    /\ IF ok
       THEN /\ store' = store \cup
                    {ThumbKey(mArgs["thumb"].user_id, mArgs["thumb"].task_id)}
            /\ mPc' = [mPc EXCEPT !["thumb"] = "reread"]
            /\ UNCHANGED <<mResp, scratch>>
       ELSE /\ ThRaise
            /\ UNCHANGED store
    /\ UNCHANGED <<mArgs, leaked, TASKS, queue, tmp, submitResp, submitCall,
                   cbVars, qVars, dbVars>>

\* video.py:225  obj = get_thumbnail_stream(user_id, task_id)
ThReread(ok) ==
    /\ mPc["thumb"] = "reread"
    /\ ok => ThumbKey(mArgs["thumb"].user_id, mArgs["thumb"].task_id) \in store
    /\ IF ok
       THEN /\ mPc' = [mPc EXCEPT !["thumb"] = "remove"]
            /\ UNCHANGED <<mResp, scratch>>
       ELSE ThRaise
    /\ UNCHANGED <<mArgs, leaked, OtherMedia>>

\* video.py:227-236  the two os.remove calls and the streaming response
ThRemove ==
    /\ mPc["thumb"] = "remove"
    /\ scratch' = scratch \ {<<"thumb", "tmp_video">>, <<"thumb", "tmp_thumb">>}
    /\ mPc' = [mPc EXCEPT !["thumb"] = "returned"]
    /\ mResp' = [mResp EXCEPT !["thumb"] = "stream"]
    /\ UNCHANGED <<mArgs, leaked, OtherMedia>>

\* ----------------------------------------------------------- upload_youtube
VideoTypes == {"original", "processed"}

\* video.py:256-263.  The type test comes before the scratch file exists.
YtStart(user_id, task_id, video_type) ==
    /\ mPc["youtube"] = "idle"
    /\ mArgs' = [mArgs EXCEPT !["youtube"] =
                    [user_id |-> user_id, task_id |-> task_id, type |-> video_type]]
    /\ IF video_type \notin VideoTypes
       THEN /\ mPc' = [mPc EXCEPT !["youtube"] = "returned"]
            /\ mResp' = [mResp EXCEPT !["youtube"] = "400"]
            /\ UNCHANGED scratch
       ELSE /\ mPc' = [mPc EXCEPT !["youtube"] = "fetch"]
            /\ scratch' = scratch \cup {<<"youtube", "tmp_video">>}
            /\ UNCHANGED mResp
    /\ UNCHANGED <<leaked, OtherMedia>>

\* video.py:266-277 and 310-314.  A failure goes through the except clause,
\* which turns it into the 500 response, to the finally clause.
YtFetch(ok) ==
    /\ mPc["youtube"] = "fetch"
    /\ ok => ObjectKey(mArgs["youtube"].user_id, mArgs["youtube"].task_id,
                       mArgs["youtube"].type = "processed") \in store
    /\ IF ok
       THEN /\ mPc' = [mPc EXCEPT !["youtube"] = "send"]
            /\ UNCHANGED mResp
       ELSE /\ mPc' = [mPc EXCEPT !["youtube"] = "finally"]
            /\ mResp' = [mResp EXCEPT !["youtube"] = "500"]
    /\ UNCHANGED <<mArgs, scratch, leaked, OtherMedia>>

\* video.py:279-308 and 310-314  get_youtube_service, insert, execute
YtSend(ok) ==
    /\ mPc["youtube"] = "send"
    /\ mPc' = [mPc EXCEPT !["youtube"] = "finally"]
    /\ mResp' = [mResp EXCEPT !["youtube"] = IF ok THEN "UPLOADED" ELSE "500"]
    /\ UNCHANGED <<mArgs, scratch, leaked, OtherMedia>>

\* video.py:316-318
YtFinally ==
    /\ mPc["youtube"] = "finally"
    /\ scratch' = scratch \ {<<"youtube", "tmp_video">>}
    /\ mPc' = [mPc EXCEPT !["youtube"] = "returned"]
    /\ UNCHANGED <<mArgs, mResp, leaked, OtherMedia>>

\* The response of a media handler has been sent; the next request of the
\* kind may come.  Files the invocation did not remove stay on disk.
MRelease(op) ==
    /\ mPc[op] = "returned"
    /\ mPc' = [mPc EXCEPT ![op] = "idle"]
    /\ mArgs' = [mArgs EXCEPT ![op] = NoArgs]
    /\ mResp' = [mResp EXCEPT ![op] = "none"]
    /\ leaked' = leaked \cup FilesOf(op)
    /\ scratch' = scratch \ FilesOf(op)
    /\ UNCHANGED OtherMedia

\* The media handlers at work on the videos of a task whose callback has
\* stored the original and published the job.
InitMedia ==
    /\ TASKS = [t \in TaskIds |->
                  IF t \in ProviderIds
                  THEN [status |-> "QUEUED_FOR_AI", user_id |-> "u1"] ELSE NoTask]
    /\ store = {ObjectKey("u1", t, FALSE) : t \in ProviderIds}
    /\ \E t \in ProviderIds :
          /\ queue = <<Job(t, "u1")>>
          /\ submitCall = [user_id |-> "u1", answer |-> "ok", task_id |-> t]
    /\ tmp = {}
    /\ submitResp = "QUEUED"
    /\ cbPc = [c \in Cb |-> IF c = 1 THEN "returned" ELSE "idle"]
    /\ cbTask = [c \in Cb |-> <<>>]
    /\ cbUrls = [c \in Cb |-> <<>>]
    /\ cbUser = [c \in Cb |-> "NONE"]
    /\ cbResp = [c \in Cb |-> IF c = 1 THEN 200 ELSE 0]
    /\ cbPath = [c \in Cb |-> "idle"]
    /\ cbRaced = [c \in Cb |-> FALSE]
    /\ qPc = [q \in Qs |-> "idle"]
    /\ qTask = [q \in Qs |-> <<>>]
    /\ qArtifact = [q \in Qs |-> FALSE]
    /\ qList = [q \in Qs |-> "none"]
    /\ qReplaced = [q \in Qs |-> "NONE"]
    /\ qOver = [q \in Qs |-> FALSE]
    /\ qResult = [q \in Qs |-> "NONE"]
    /\ reported = [t \in TaskIds |-> "NONE"]
    /\ mPc = [op \in MediaOps |-> "idle"]
    /\ mArgs = [op \in MediaOps |-> NoArgs]
    /\ mResp = [op \in MediaOps |-> "none"]
    /\ scratch = {}
    /\ leaked = {}
    /\ videos = {}
    /\ dbResp = NoDbCall

RequestTypes == VideoTypes \cup {"other"}

NextMedia ==
    \/ \E u \in Users, t \in TaskIds : ThStart(u, t)
    \/ \E ok \in BOOLEAN : ThLookup(ok)
    \/ \E ok \in BOOLEAN : ThFetch(ok)
    \/ \E ok \in BOOLEAN : ThEncode(ok)
    \/ \E ok \in BOOLEAN : ThUpload(ok)
    \/ \E ok \in BOOLEAN : ThReread(ok)
    \/ ThRemove
    \/ \E u \in Users, t \in TaskIds, ty \in RequestTypes : YtStart(u, t, ty)
    \/ \E ok \in BOOLEAN : YtFetch(ok)
    \/ \E ok \in BOOLEAN : YtSend(ok)
    \/ YtFinally
    \/ \E op \in MediaOps : MRelease(op)
    \/ \E j \in 1..Len(queue) : Worker(j)

SpecMedia == InitMedia /\ [][NextMedia]_vars

\* --------------------------------------------------------------------- ai.py
\* Rows of ai_final_videos are records; the table is the set of its rows, so
\* that two rows with one video_key are a state the model can express.  The
\* column youtube_uploaded_at, a timestamp, is left out.
VideoKeys == {ObjectKey(u, t, TRUE) : u \in Users, t \in ProviderIds}
Titles == {"NULL", "title"}
Descriptions == {"NULL", "text"}
YoutubeIds == {"y1", "y2"}
RowsOf(video_key) == {r \in videos : r.video_key = video_key}
OtherDb == <<TASKS, store, queue, tmp, submitResp, submitCall, cbVars, qVars, mediaVars>>

\* Variant of insert_final_video whose statement ends in ON CONFLICT
\* (video_key) DO UPDATE: the later insert replaces the row.
insert_final_video_Upsert(video_key, user_id, title, description, fault) ==
    /\ dbResp' = [op |-> "insert", video_key |-> video_key, user_id |-> user_id,
                  title |-> title, description |-> description,
                  youtube_video_id |-> "NULL", fault |-> fault,
                  result |-> IF fault THEN "error" ELSE "ok"]
    /\ videos' = IF fault THEN videos
                 ELSE (videos \ RowsOf(video_key)) \cup
                          {[video_key |-> video_key, user_id |-> user_id,
                            title |-> title, description |-> description,
                            youtube_uploaded |-> FALSE,
                            youtube_video_id |-> "NULL"]}
    /\ UNCHANGED OtherDb

\* ai.py:13-46.  INSERT ... ON CONFLICT (video_key) DO NOTHING and commit; a
\* database error rolls back and is raised as RuntimeError.  The new row has
\* the table's defaults in the two publish columns.
insert_final_video(video_key, user_id, title, description, fault) ==
    /\ dbResp' = [op |-> "insert", video_key |-> video_key, user_id |-> user_id,
                  title |-> title, description |-> description,
                  youtube_video_id |-> "NULL", fault |-> fault,
                  result |-> IF fault THEN "error" ELSE "ok"]
    /\ videos' = IF fault \/ RowsOf(video_key) # {} THEN videos
                 ELSE videos \cup {[video_key |-> video_key, user_id |-> user_id,
                                    title |-> title, description |-> description,
                                    youtube_uploaded |-> FALSE,
                                    youtube_video_id |-> "NULL"]}
    /\ UNCHANGED OtherDb

\* Variant of mark_youtube_uploaded without the rowcount test of ai.py:78-79.
mark_youtube_uploaded_NoRowcountTest(video_key, youtube_video_id, fault) ==
    /\ dbResp' = [op |-> "mark", video_key |-> video_key, user_id |-> "NONE",
                  title |-> "NULL", description |-> "NULL",
                  youtube_video_id |-> youtube_video_id, fault |-> fault,
                  result |-> IF fault THEN "error" ELSE "ok"]
    /\ videos' = IF fault THEN videos
                 ELSE {IF r.video_key = video_key
                       THEN [r EXCEPT !.youtube_uploaded = TRUE,
                                      !.youtube_video_id = youtube_video_id]
                       ELSE r : r \in videos}
    /\ UNCHANGED OtherDb

\* ai.py:52-85.  UPDATE ... WHERE video_key = :video_key; when no row matched,
\* RuntimeError("video_key not found") leaves the function before the commit,
\* and the session closes without one; otherwise commit.  A database error
\* rolls back and is raised as RuntimeError.
mark_youtube_uploaded(video_key, youtube_video_id, fault) ==
    /\ dbResp' = [op |-> "mark", video_key |-> video_key, user_id |-> "NONE",
                  title |-> "NULL", description |-> "NULL",
                  youtube_video_id |-> youtube_video_id, fault |-> fault,
                  result |-> IF fault THEN "error"
                             ELSE IF RowsOf(video_key) = {} THEN "not_found"
                             ELSE "ok"]
    /\ videos' = IF fault THEN videos
                 ELSE {IF r.video_key = video_key
                       THEN [r EXCEPT !.youtube_uploaded = TRUE,
                                      !.youtube_video_id = youtube_video_id]
                       ELSE r : r \in videos}
    /\ UNCHANGED OtherDb

NextDb ==
    \/ \E k \in VideoKeys, u \in Users, ti \in Titles, de \in Descriptions,
          fault \in BOOLEAN : insert_final_video(k, u, ti, de, fault)
    \/ \E k \in VideoKeys, y \in YoutubeIds, fault \in BOOLEAN :
          mark_youtube_uploaded(k, y, fault)

SpecDb == Init /\ [][NextDb]_vars

\* ------------------------------------------------ submissions and queries
\* generate_video with every answer of the provider, any id of TaskIds being
\* one the provider may hand out, together with the status queries that can
\* run while no callback has arrived.
SubmitFailures == {"http_error", "no_task_id"}

NextSubmit ==
    \/ \E u \in Users, t \in TaskIds : SubmitOk(u, t)
    \/ \E u \in Users, why \in SubmitFailures : SubmitFail(u, why)
    \/ \E q \in Qs, t \in TaskIds : QStart(q, t)
    \/ \E q \in Qs, ok \in BOOLEAN : QList(q, ok)
    \/ \E q \in Qs : QRet(q)
    \/ \E q \in Qs : QRelease(q)

SpecSubmit == Init /\ [][NextSubmit]_vars

\* ======================================================================
\* Properties
\* ======================================================================
Status(t) == TASKS[t].status
JobsFor(t) == {i \in 1..Len(queue) : queue[i].task_id = t}

\* Steps of the handlers, as seen between two states.
CbReturns(c) == cbPc[c] # "returned" /\ cbPc'[c] = "returned"
QReports(q) == qPc[q] # "returned" /\ qPc'[q] = "returned"

\* ---------------------------------------------------------------- C1
\* C1: the stored status of a task changes only along QUEUED -> QUEUED_FOR_AI,
\* QUEUED -> DONE, QUEUED_FOR_AI -> FAILED and QUEUED_FOR_AI -> DONE; so DONE
\* never changes again and FAILED never becomes QUEUED or QUEUED_FOR_AI.
C1_Edges ==
    {<<"QUEUED", "QUEUED_FOR_AI">>, <<"QUEUED", "DONE">>,
     <<"QUEUED_FOR_AI", "FAILED">>, <<"QUEUED_FOR_AI", "DONE">>}

C1_StatusTransitions ==
    [][\A t \in TaskIds :
          (Known(t) /\ Status(t)' # Status(t))
              => <<Status(t), Status(t)'>> \in C1_Edges]_vars

\* ---------------------------------------------------------------- C2
\* C2: a repeated callback for a task publishes no further job: no task id
\* ever has more than one job in the queue.
C2_AtMostOneJobPerTask ==
    \A t \in TaskIds : Cardinality(JobsFor(t)) <= 1

\* ---------------------------------------------------------------- C3
\* C3: when a status query stores DONE for a task while a callback for that
\* task is running, the stored status is DONE when that callback returns.
C3_DoneSurvivesCallback ==
    [][\A c \in Cb :
          (CbReturns(c) /\ cbRaced[c]) => TASKS'[cbTask[c]].status = "DONE"]_vars

C5_TerminalReports ==
    [][\A q \in Qs :
          (QReports(q) /\ Known(qTask'[q])
             /\ reported[qTask'[q]] \in {"FAILED", "DONE"})
              => qResult'[q] = reported[qTask'[q]]]_vars

\* ---------------------------------------------------------------- C6
\* C6: a callback on a known task with result URLs whose download, upload or
\* publish failed leaves the stored status FAILED when it returns; and a
\* callback whose download or upload failed publishes no job.
C6_FailedAtReturn ==
    [][\A c \in Cb :
          /\ (CbReturns(c) /\ cbPath[c] \in {"download", "upload", "publish"})
                => TASKS'[cbTask[c]].status = "FAILED"
          /\ (cbPc'[c] # cbPc[c] /\ cbPath'[c] \in {"download", "upload"})
                => queue' = queue]_vars

\* ---------------------------------------------------------------- C7
\* C7: every callback invocation that has returned has answered with the
\* success code, whatever its payload and whichever step failed; no other
\* response is ever produced.
C7_AlwaysAcknowledges ==
    \A c \in Cb :
        /\ cbPc[c] = "returned" => cbResp[c] = 200
        /\ cbResp[c] \in {0, 200}

\* A callback has returned after one of its steps failed.
C7_Witness ==
    \E c \in Cb, t \in TaskIds :
        /\ cbPc[c] = "returned"
        /\ cbResp[c] = 200
        /\ Known(t)
        /\ Status(t) = "FAILED"

\* ---------------------------------------------------------------- C8
\* C8: the queue grows only by a callback completing its publish step, by one
\* job per such step; that job carries the task's id and owner, the key the
\* original was uploaded under and the key of the processed artifact; and the
\* callback's next step stores QUEUED_FOR_AI.
C8_PublishStep(c) == cbPc[c] = "publish" /\ cbPc'[c] = "setstatus"

C8_JobOf(t) ==
    [task_id |-> t,
     user_id |-> TASKS[t].user_id,
     input_key |-> ObjectKey(TASKS[t].user_id, t, FALSE),
     output_key |-> ObjectKey(TASKS[t].user_id, t, TRUE)]

C8_OneJobPerPublish ==
    /\ [](\A i \in 1..Len(queue) :
             Known(queue[i].task_id) /\ queue[i] = C8_JobOf(queue[i].task_id))
    /\ [][/\ Len(queue') = Len(queue) + Cardinality({c \in Cb : C8_PublishStep(c)})
          /\ \A c \in Cb :
                C8_PublishStep(c) => queue' = Append(queue, C8_JobOf(cbTask[c]))
          /\ \A c \in Cb :
                (cbPc[c] = "setstatus" /\ cbPc'[c] # "setstatus")
                    => TASKS'[cbTask[c]].status = "QUEUED_FOR_AI"]_vars

\* A callback has published its job and stored QUEUED_FOR_AI.
C8_Witness ==
    \E c \in Cb :
        /\ cbPc[c] = "finally"
        /\ cbPath[c] = "ok"
        /\ Status(cbTask[c]) = "QUEUED_FOR_AI"
        /\ Len(queue) = 1
        /\ queue[1].input_key \in store

\* ---------------------------------------------------------------- C9
\* C9: a callback whose task id is not in the task map, or whose list of
\* result URLs is empty, returns the success code and changes nothing: task
\* map, object store, queue and scratch files stay as they were.
C9_IgnoredCallbackIsNoOp ==
    [][\A c \in Cb :
          (cbPc[c] = "check" /\ cbPc'[c] # "check"
             /\ (~Known(cbTask[c]) \/ cbUrls[c] = <<>>))
              => /\ cbPc'[c] = "returned"
                 /\ cbResp'[c] = 200
                 /\ UNCHANGED <<TASKS, store, queue, tmp>>]_vars

\* A callback has returned without a scratch file ever made, while the task
\* it could have named is known and has not been touched.
C9_Witness ==
    \E c \in Cb, t \in TaskIds :
        /\ cbPc[c] = "returned"
        /\ cbResp[c] = 200
        /\ \A d \in Cb : cbPc[d] \in {"idle", "returned"}
        /\ Known(t)
        /\ Status(t) = "QUEUED"
        /\ store = {}
        /\ queue = <<>>
        /\ tmp = {}

\* --------------------------------------------------------------- C10
\* C10: a status query that finds the stored status FAILED reports FAILED at
\* once, without listing the object store and without writing the status,
\* also when the processed artifact is in storage.
C10_FailedReportedVerbatim ==
    [][\A q \in Qs :
          (qPc[q] = "idle" /\ qPc'[q] # "idle"
             /\ Known(qTask'[q]) /\ Status(qTask'[q]) = "FAILED")
              => /\ qPc'[q] = "returned"
                 /\ qResult'[q] = "FAILED"
                 /\ qList'[q] = "none"
                 /\ TASKS' = TASKS]_vars

C10_Witness ==
    \E q \in Qs :
        /\ qPc[q] = "returned"
        /\ Known(qTask[q])
        /\ qArtifact[q]
        /\ qList[q] = "none"
        /\ qResult[q] = "FAILED"
        /\ Status(qTask[q]) = "FAILED"

\* --------------------------------------------------------------- C11
\* C11: a status query for a task id that is not in the task map reports DONE
\* and changes nothing: the id gets no entry, and store, queue and scratch
\* files stay as they were.
C11_UnknownReportedDone ==
    [][\A q \in Qs :
          (qPc[q] = "idle" /\ qPc'[q] # "idle" /\ ~Known(qTask'[q]))
              => /\ qPc'[q] = "returned"
                 /\ qResult'[q] = "DONE"
                 /\ UNCHANGED <<TASKS, store, queue, tmp, reported>>]_vars

\* A query for an id nobody submitted has answered DONE, while a submitted
\* task is still under way.
C11_Witness ==
    \E q \in Qs, t \in TaskIds :
        /\ qPc[q] = "returned"
        /\ ~Known(qTask[q])
        /\ qResult[q] = "DONE"
        /\ Known(t)
        /\ Status(t) = "QUEUED_FOR_AI"

\* --------------------------------------------------------------- C12
\* C12: when the storage listing of a status query fails, the query does not
\* fail: it goes on to its return, reports the status stored at that moment,
\* and writes nothing to the task map.
C12_Statuses == {"QUEUED", "QUEUED_FOR_AI", "FAILED", "DONE"}

C12_ListingErrorTolerated ==
    /\ [](\A q \in Qs :
             (qPc[q] = "returned" /\ qList[q] = "err")
                 => qResult[q] \in C12_Statuses)
    /\ [][\A q \in Qs :
             (qPc'[q] # qPc[q] /\ qList'[q] = "err")
                 => /\ TASKS' = TASKS
                    /\ qPc[q] = "list" => qPc'[q] = "ret"
                    /\ qPc[q] = "ret"
                         => /\ qPc'[q] = "returned"
                            /\ qResult'[q] = Status(qTask[q])]_vars

\* A query whose listing failed has reported the stored status, with the
\* processed artifact in storage all the while.
C12_Witness ==
    \E q \in Qs :
        /\ qPc[q] = "returned"
        /\ qList[q] = "err"
        /\ qArtifact[q]
        /\ qResult[q] = "QUEUED_FOR_AI"
        /\ Status(qTask[q]) = "QUEUED_FOR_AI"

\* --------------------------------------------------------------- C13
\* C13: for a task whose callback succeeded (stored status QUEUED_FOR_AI),
\* once the object at the published job's output_key is in storage, a status
\* query whose listing succeeds finds it, stores DONE and reports DONE; a query
\* whose listing succeeds without finding the artifact writes nothing and
\* reports the stored status.
C13_CompletionObserved ==
    [][\A q \in Qs :
          /\ (qPc[q] = "list" /\ qList'[q] \in {"present", "absent"}
                /\ \E j \in JobsFor(qTask[q]) : queue[j].output_key \in store)
                 => qList'[q] = "present"
          /\ (qPc[q] = "write" /\ qPc'[q] # "write")
                 => TASKS'[qTask[q]].status = "DONE"
          /\ (QReports(q) /\ qList[q] = "present" /\ qArtifact[q]
                /\ qReplaced[q] = "QUEUED_FOR_AI")
                 => qResult'[q] = "DONE"
          /\ (qPc'[q] # qPc[q] /\ qList'[q] = "absent")
                 => /\ TASKS' = TASKS
                    /\ QReports(q) => qResult'[q] = Status(qTask[q])]_vars

\* --------------------------------------------------------------- C14
\* C14: the scratch file of a callback exists only while the callback is
\* between its creation and its return: whichever of download, upload and
\* publish failed, or none, the file is gone when the handler has returned.
C14_ScratchRemoved ==
    \A c \in Cb : cbPc[c] \in {"idle", "check", "returned"} => c \notin tmp

\* Two callbacks have returned, one after publishing its job and one after a
\* failed step, and no scratch file is left.
C14_Witness ==
    /\ \A c \in Cb : cbPc[c] = "returned" /\ cbResp[c] = 200
    /\ Len(queue) = 1
    /\ Status(queue[1].task_id) = "FAILED"
    /\ tmp = {}

\* --------------------------------------------------------------- C15
\* C15: a handler that has returned has left none of its scratch files on
\* disk, whether it returned a result or an error: this for the callback, for
\* get_thumbnail and for upload_youtube.
C15_NoScratchLeft ==
    /\ \A c \in Cb : cbPc[c] \in {"idle", "check", "returned"} => c \notin tmp
    /\ \A op \in MediaOps : mPc[op] \in {"idle", "returned"} => FilesOf(op) = {}
    /\ leaked = {}

\* --------------------------------------------------------------- C16
\* C16: a generate_video call registers a task exactly when the provider
\* answered with a task id: the map then gains that id with status QUEUED and
\* the caller as owner, nothing else in it changes, and the response is
\* QUEUED; when the provider call fails or carries no task id the call ends
\* with an error response and the map is as before.
C16_SubmitStep == <<submitCall, submitResp>>' # <<submitCall, submitResp>>

C16_RegistersOnlyOnSuccess ==
    [][/\ C16_SubmitStep =>
            IF submitCall'.answer = "ok"
            THEN /\ submitResp' = "QUEUED"
                 /\ submitCall'.task_id \in TaskIds
                 /\ TASKS' = [TASKS EXCEPT ![submitCall'.task_id] =
                                 [status |-> "QUEUED",
                                  user_id |-> submitCall'.user_id]]
            ELSE /\ submitResp' \in {"500", "502"}
                 /\ TASKS' = TASKS
       /\ (\E t \in TaskIds : ~Known(t) /\ Known(t)')
              => C16_SubmitStep /\ submitCall'.answer = "ok"]_vars

\* One submission was registered for u1, and a later call of u2 failed at the
\* provider: the map holds the one task, still QUEUED and owned by u1.
C16_Witness ==
    /\ submitCall.user_id = "u2"
    /\ submitCall.answer = "http_error"
    /\ submitResp = "500"
    /\ \E t \in TaskIds :
          /\ TASKS[t] = [status |-> "QUEUED", user_id |-> "u1"]
          /\ \A t2 \in TaskIds \ {t} : ~Known(t2)

\* --------------------------------------------------------------- C17
\* C17: the table never holds two rows with one video_key; an insert for a
\* video_key that already has a row leaves the table exactly as it was, and
\* it ends in an error only when the database failed the statement.
C17_DbStep == videos' # videos \/ dbResp' # dbResp

C17_InsertIdempotent ==
    /\ [](\A r1 \in videos, r2 \in videos :
             r1.video_key = r2.video_key => r1 = r2)
    /\ [][(C17_DbStep /\ dbResp'.op = "insert")
             => /\ RowsOf(dbResp'.video_key) # {} => videos' = videos
                /\ ~dbResp'.fault => dbResp'.result = "ok"
                /\ \A r \in videos : r \in videos']_vars

\* A row was marked as published, and a later insert for its video_key with
\* another user, title and description came back without an error: the row
\* still has its own fields and its publish flags.
C17_Witness ==
    /\ dbResp.op = "insert"
    /\ dbResp.result = "ok"
    /\ \E r \in videos :
          /\ r.video_key = dbResp.video_key
          /\ r.user_id # dbResp.user_id
          /\ r.title # dbResp.title
          /\ r.description # dbResp.description
          /\ r.youtube_uploaded
          /\ r.youtube_video_id \in YoutubeIds

\* --------------------------------------------------------------- C18
\* C18: marking a video_key that has no row ends in the not-found error and
\* leaves the table as it was; marking a video_key that has a row sets that
\* row's youtube_uploaded and youtube_video_id, keeps its other fields, and
\* leaves every other row as it was.
C18_MarkPublished ==
    [][(C17_DbStep /\ dbResp'.op = "mark" /\ ~dbResp'.fault)
          => IF RowsOf(dbResp'.video_key) = {}
             THEN /\ dbResp'.result = "not_found"
                  /\ videos' = videos
             ELSE /\ dbResp'.result = "ok"
                  /\ \A r \in videos :
                        IF r.video_key = dbResp'.video_key
                        THEN [r EXCEPT !.youtube_uploaded = TRUE,
                                       !.youtube_video_id = dbResp'.youtube_video_id]
                                 \in videos'
                        ELSE r \in videos'
                  /\ Cardinality(videos') = Cardinality(videos)]_vars

\* A mark for a video_key without a row has just failed; the table holds the
\* row of another video_key, marked by an earlier call with another id.
C18_Witness ==
    /\ dbResp.op = "mark"
    /\ dbResp.result = "not_found"
    /\ \E r \in videos :
          /\ r.youtube_uploaded
          /\ r.youtube_video_id # dbResp.youtube_video_id
          /\ videos = {r}

\* --------------------------------------------------------------- C19
\* C19: the original of every published job is in storage at the job's
\* input_key, and a callback stores QUEUED_FOR_AI only when the job of its
\* task is already in the queue.
C19_UploadBeforePublish ==
    /\ [](\A j \in 1..Len(queue) : queue[j].input_key \in store)
    /\ [][\A t \in TaskIds :
             (Status(t)' = "QUEUED_FOR_AI" /\ Status(t) # "QUEUED_FOR_AI")
                 => \E j \in JobsFor(t) :
                        queue[j] = Job(t, TASKS[t].user_id)]_vars

\* A job is in the queue, with its original stored, and its callback has not
\* yet stored QUEUED_FOR_AI.
C19_Witness ==
    \E c \in Cb :
        /\ cbPc[c] = "setstatus"
        /\ Status(cbTask[c]) = "QUEUED"
        /\ JobsFor(cbTask[c]) # {}
        /\ \A j \in JobsFor(cbTask[c]) : queue[j].input_key \in store

\* --------------------------------------------------------------- C20
\* C20: DONE is stored only by a status query that has just seen the processed
\* name of the task in a successful listing of the owner's namespace; so a
\* task with stored status DONE has its processed artifact listed for its
\* owner, and no callback step and no Submit step stores DONE.
C20_DoneOnlyByInference ==
    /\ [](\A t \in TaskIds :
             (Known(t) /\ Status(t) = "DONE")
                 => ProcessedName(t) \in list_user_videos(TASKS[t].user_id))
    /\ [][\A t \in TaskIds :
             (Status(t)' = "DONE" /\ Status(t) # "DONE")
                 => /\ \E q \in Qs : /\ qPc[q] = "write" /\ qPc'[q] = "ret"
                                     /\ qTask[q] = t
                                     /\ qList[q] = "present"
                    /\ cbPc' = cbPc
                    /\ submitResp' = submitResp]_vars

\* A task is DONE while a callback for it is still running: the callback has
\* published and is about to store its own status.
C20_Witness ==
    \E c \in Cb :
        /\ cbPc[c] = "setstatus"
        /\ Status(cbTask[c]) = "DONE"
        /\ ObjectKey(TASKS[cbTask[c]].user_id, cbTask[c], TRUE) \in store
====
